---- MODULE Spec2Model ----
(***************************************************************************)
(* Grid<T>: a dense row-major two-dimensional container (src/src/grid.rs)  *)
(* and its older sibling in the crate root (src/src/lib.rs).  Elements are *)
(* modelled by their code points (char) or values (u8); text is a sequence *)
(* of code points.  A panic is a result with ok = FALSE.                   *)
(***************************************************************************)
EXTENDS Integers, Sequences, FiniteSets, TLC

\* ------------------------------------------------------------------ bounds

\* Most rows of a constructor's input.
MaxRows == 3
\* Longest row of a constructor's input.
MaxCols == 3
\* Most indexed writes applied to one grid.
MaxWrites == 1

\* -------------------------------------------------------------- characters

LF == 10
CR == 13
SPACE == 32
\* 'a', the first cell of the test text "abc\ndef\nghi\njkl"
CharA == 97
\* 'z', a letter no generated input holds
CharZ == CharA + 25

\* ----------------------------------------------------------------- helpers

\* Option<usize>: None is the empty sequence, Some(n) is <<n>>.
None == <<>>
Some(n) == <<n>>

\* A panic, and a constructed grid, as one result shape.
Panic(m) == [ok |-> FALSE, msg |-> m, buf |-> <<>>, width |-> 0, height |-> 0]
Built(b, w, h) == [ok |-> TRUE, msg |-> <<>>, buf |-> b, width |-> w, height |-> h]

\* Iterator::flatten().collect() over a sequence of rows.
RECURSIVE Flatten(_)
Flatten(v) == IF Len(v) = 0 THEN <<>> ELSE Head(v) \o Flatten(Tail(v))

\* ------------------------------------------------------------ constructors

\* from_nested with width and height taken from the wrong lengths.
from_nested_swapped(v) ==
    IF Len(v) = 0 THEN Panic(<<"index out of bounds">>)
    ELSE LET height == Len(v[1])
             width == Len(v)
             buf == Flatten(v)
         IN  IF Len(buf) # width * height
             THEN Panic(<<"mismatched buffer row lengths">>)
             ELSE Built(buf, width, height)

from_nested(v) ==
    IF Len(v) = 0 THEN Panic(<<"index out of bounds">>)
    ELSE LET height == Len(v)
             width == Len(v[1])
             buf == Flatten(v)
         IN  IF Len(buf) # width * height
             THEN Panic(<<"mismatched buffer row lengths">>)
             ELSE Built(buf, width, height)

from_nested_slice(v) ==
    IF Len(v) = 0 THEN Panic(<<"index out of bounds">>)
    ELSE LET height == Len(v)
             width == Len(v[1])
             buf == Flatten([i \in 1..Len(v) |-> [j \in 1..Len(v[i]) |-> v[i][j]]])
         IN  IF Len(buf) # width * height
             THEN Panic(<<"mismatched buffer row lengths">>)
             ELSE Built(buf, width, height)

\* str::lines(): split_inclusive('\n'); a piece that ends in "\n" loses it and
\* then one "\r" before it; the last piece without "\n" is kept as it is.
RECURSIVE LinesFrom(_, _, _)
LinesFrom(s, i, cur) ==
    IF i > Len(s) THEN (IF Len(cur) = 0 THEN <<>> ELSE <<cur>>)
    ELSE IF s[i] = LF
         THEN LET line == IF Len(cur) > 0 /\ cur[Len(cur)] = CR
                          THEN SubSeq(cur, 1, Len(cur) - 1)
                          ELSE cur
              IN  <<line>> \o LinesFrom(s, i + 1, <<>>)
         ELSE LinesFrom(s, i + 1, Append(cur, s[i]))

Lines(s) == LinesFrom(s, 1, <<>>)

\* The loop of from_str_chars over the lines, then the construction.
RECURSIVE StrCharsLoop(_, _, _, _, _)
StrCharsLoop(lines, i, buf, height, prev_width) ==
    IF i > Len(lines)
    THEN IF prev_width = None
         THEN Panic(<<"got empty grid">>)
         ELSE Built(buf, prev_width[1], height)
    ELSE LET width == Len(lines[i])
         IN  IF prev_width # None /\ prev_width[1] # width
             THEN Panic(<<"differing widths">>)
             ELSE StrCharsLoop(lines, i + 1, buf \o lines[i], height + 1, Some(
                      IF prev_width = None THEN width ELSE prev_width[1]))

from_str_chars(s) == StrCharsLoop(Lines(s), 1, <<>>, 0, None)

\* The loop of from_separated, shared by both files; it ends in the state
\* <<panicked, buf, height, width, prev_width>>.
RECURSIVE SeparatedLoop(_, _, _, _, _, _, _)
SeparatedLoop(s, sep, i, buf, height, width, prev_width) ==
    IF i > Len(s) THEN [panic |-> FALSE, buf |-> buf, height |-> height,
                        width |-> width, prev_width |-> prev_width]
    ELSE IF s[i] = sep
         THEN IF prev_width # None /\ prev_width[1] # width
              THEN [panic |-> TRUE, buf |-> buf, height |-> height,
                    width |-> width, prev_width |-> prev_width]
              ELSE SeparatedLoop(s, sep, i + 1, buf, height + 1, 0,
                       IF prev_width = None THEN Some(width) ELSE prev_width)
         ELSE SeparatedLoop(s, sep, i + 1, Append(buf, s[i]), height, width + 1,
                            prev_width)

\* grid.rs: the last, unterminated row is checked after the loop.
from_separated(s, sep) ==
    LET e == SeparatedLoop(s, sep, 1, <<>>, 1, 0, None)
    IN  IF e.panic THEN Panic(<<"differing width in line", e.height>>)
        ELSE IF e.prev_width = None THEN Panic(<<"got empty grid">>)
        ELSE IF e.prev_width[1] # e.width
             THEN Panic(<<"differing width in line", e.height>>)
        ELSE Built(e.buf, e.prev_width[1], e.height)

\* lib.rs: no check after the loop.
lib_from_separated(s, sep) ==
    LET e == SeparatedLoop(s, sep, 1, <<>>, 1, 0, None)
    IN  IF e.panic THEN Panic(<<"differing widths">>)
        ELSE IF e.prev_width = None THEN Panic(<<"got empty grid">>)
        ELSE Built(e.buf, e.prev_width[1], e.height)

\* str::as_bytes(): the UTF-8 encoding of each code point (below U+0800).
Utf8(c) == IF c < 128 THEN <<c>> ELSE <<192 + (c \div 64), 128 + (c % 64)>>
as_bytes(s) == Flatten([i \in 1..Len(s) |-> Utf8(s[i])])

from_str_bytes(s) == from_separated(as_bytes(s), LF)
lib_from_str_bytes(s) == lib_from_separated(as_bytes(s), LF)

\* ---------------------------------------------------------------- indexing

Fail(m) == [ok |-> FALSE, msg |-> m, off |-> 0, val |-> 0]
Place(o, e) == [ok |-> TRUE, msg |-> <<>>, off |-> o, val |-> e]

\* Index<(usize, usize)>: the two assertions, then the slice's own bounds check.
index(b, w, h, x, y) ==
    IF ~(x < w) THEN Fail(<<"x index out of range">>)
    ELSE IF ~(y < h) THEN Fail(<<"y index out of range">>)
    ELSE IF ~(y * w + x < Len(b)) THEN Fail(<<"index out of bounds">>)
    ELSE Place(y * w + x, b[y * w + x + 1])

\* IndexMut<(usize, usize)>: the place the assignment then writes.
index_mut(b, w, h, x, y) ==
    IF ~(x < w) THEN Fail(<<"x index out of range">>)
    ELSE IF ~(y < h) THEN Fail(<<"y index out of range">>)
    ELSE IF ~(y * w + x < Len(b)) THEN Fail(<<"index out of bounds">>)
    ELSE Place(y * w + x, b[y * w + x + 1])

\* usize::try_from(i32): fails on a negative value.
try_from(i) == IF i < 0 THEN None ELSE Some(i)

\* Index<PolyVec2<I>>, I = i32.
poly_index(b, w, h, ix, iy) ==
    IF try_from(ix) = None \/ try_from(iy) = None
    THEN Fail(<<"conversion to usize failed while indexing grid">>)
    ELSE index(b, w, h, try_from(ix)[1], try_from(iy)[1])

\* IndexMut<PolyVec2<I>>, I = i32.
poly_index_mut(b, w, h, ix, iy) ==
    IF try_from(ix) = None \/ try_from(iy) = None
    THEN Fail(<<"conversion to usize failed while indexing grid">>)
    ELSE index_mut(b, w, h, try_from(ix)[1], try_from(iy)[1])

\* ---------------------------------------------------------------- iteration

\* rows(): row i is the slice buf[i * width .. (i + 1) * width], which panics
\* when it ends past the buffer; the rows before it have been yielded.
RECURSIVE RowsFrom(_, _, _, _)
RowsFrom(b, w, h, i) ==
    IF i >= h THEN [ok |-> TRUE, rows |-> <<>>]
    ELSE IF (i + 1) * w > Len(b) THEN [ok |-> FALSE, rows |-> <<>>]
    ELSE LET rest == RowsFrom(b, w, h, i + 1)
         IN  [ok |-> rest.ok, rows |-> <<SubSeq(b, i * w + 1, (i + 1) * w)>> \o rest.rows]

rows(b, w, h) == RowsFrom(b, w, h, 0)

\* positions(): y outer, x inner.
positions(w, h) ==
    Flatten([y \in 1..h |-> [x \in 1..w |-> <<x - 1, y - 1>>]])

DIRS4 == << <<0, -1>>, <<-1, 0>>, <<1, 0>>, <<0, 1>> >>
DIRS8 == << <<0, -1>>, <<-1, 0>>, <<1, 0>>, <<0, 1>>,
            <<-1, -1>>, <<1, -1>>, <<-1, 1>>, <<1, 1>> >>

\* (lo..hi).contains(v)
contains(lo, hi, v) == lo <= v /\ v < hi

\* neighbor_positions4 with the ranges closed at width and height.
neighbor_positions4_inclusive(w, h, pos) ==
    SelectSeq([i \in 1..Len(DIRS4) |-> <<pos[1] + DIRS4[i][1], pos[2] + DIRS4[i][2]>>],
              LAMBDA p : contains(0, w + 1, p[1]) /\ contains(0, h + 1, p[2]))

neighbor_positions4(w, h, pos) ==
    SelectSeq([i \in 1..Len(DIRS4) |-> <<pos[1] + DIRS4[i][1], pos[2] + DIRS4[i][2]>>],
              LAMBDA p : contains(0, w, p[1]) /\ contains(0, h, p[2]))

neighbor_positions8(w, h, pos) ==
    SelectSeq([i \in 1..Len(DIRS8) |-> <<pos[1] + DIRS8[i][1], pos[2] + DIRS8[i][2]>>],
              LAMBDA p : contains(0, w, p[1]) /\ contains(0, h, p[2]))

\* ---------------------------------------------------------------- rendering

\* The decimal digits of n, as code points.
RECURSIVE Digits(_)
Digits(n) == IF n < 10 THEN <<48 + n>> ELSE Append(Digits(n \div 10), 48 + (n % 10))

\* "{item}": a char is itself, a u8 its decimal digits.
to_string(ty, e) == IF ty = "char" THEN <<e>> ELSE Digits(e)

\* String::len(): the length in bytes.
str_len(s) == Len(as_bytes(s))

\* FmtRow without the space between the items.
RECURSIVE FmtRowNoSpace(_, _, _)
FmtRowNoSpace(ty, row, i) ==
    IF i > Len(row) THEN <<LF>>
    ELSE to_string(ty, row[i]) \o FmtRowNoSpace(ty, row, i + 1)

\* One row of Display for Grid: a space before every item but the first,
\* then the line break.
RECURSIVE FmtRow(_, _, _)
FmtRow(ty, row, i) ==
    IF i > Len(row) THEN <<LF>>
    ELSE (IF i # 1 THEN <<SPACE>> ELSE <<>>) \o to_string(ty, row[i])
         \o FmtRow(ty, row, i + 1)

\* Display for Grid: what was written, and whether rows() panicked on the way.
fmt(ty, b, w, h) ==
    LET r == rows(b, w, h)
    IN  [ok |-> r.ok,
         out |-> Flatten([i \in 1..Len(r.rows) |-> FmtRow(ty, r.rows[i], 1)])]

\* The classifier closures a caller may attach.
Classifiers == {"origin", "diagonal", "all", "none"}
Classify(f, x, y) ==
    CASE f = "origin" -> x = 0 /\ y = 0
      [] f = "diagonal" -> x = y
      [] f = "all" -> TRUE
      [] OTHER -> FALSE

\* Option::map_or(false, |f| f((x, y)))
map_or_false(opt, x, y) == IF opt = None THEN FALSE ELSE Classify(opt[1], x, y)

RECURSIVE MaxLen(_, _, _)
MaxLen(ty, b, i) ==
    IF i > Len(b) THEN 0
    ELSE LET m == MaxLen(ty, b, i + 1)
             l == str_len(to_string(ty, b[i]))
         IN  IF l > m THEN l ELSE m

\* style with the green branch tested before the red one.
style_green_first(red, green, x, y) ==
    IF map_or_false(green, x, y) THEN "bold green"
    ELSE IF map_or_false(red, x, y) THEN "bold red"
    ELSE "rgb(192,192,192)"

\* The branch of Display for PrettyGrid that styles cell (x, y).
style(red, green, x, y) ==
    IF map_or_false(red, x, y) THEN "bold red"
    ELSE IF map_or_false(green, x, y) THEN "bold green"
    ELSE "rgb(192,192,192)"

\* Display for PrettyGrid: per row, per cell, the padding written before the
\* cell, its style and its text.
pretty_fmt(ty, b, w, h, red, green) ==
    LET max_cell_len == MaxLen(ty, b, 1)
        r == rows(b, w, h)
    IN  [ok |-> r.ok,
         out |-> [y \in 1..Len(r.rows) |->
                    [x \in 1..Len(r.rows[y]) |->
                       [x |-> x - 1, y |-> y - 1,
                        pad |-> IF max_cell_len > 1
                                THEN max_cell_len
                                     - str_len(to_string(ty, r.rows[y][x])) + 1
                                ELSE 0,
                        style |-> style(red, green, x - 1, y - 1),
                        item |-> to_string(ty, r.rows[y][x])]]]]

\* ---------------------------------------------------------------------- map

\* The functions a caller may hand to map().
MapFns == {"to_ascii_uppercase", "as_u8"}
Apply(f, e) ==
    IF f = "to_ascii_uppercase"
    THEN (IF CharA <= e /\ e <= CharZ THEN e - SPACE ELSE e)
    ELSE e % 256
MapType(f, ty) == IF f = "as_u8" THEN "u8" ELSE ty

\* map(): f over the buffer in order; width and height are copied.
map(b, w, h, f) == Built([i \in 1..Len(b) |-> Apply(f, b[i])], w, h)

\* ------------------------------------------------------------------- inputs

\* The cell a generated input holds at column x of row y: 'a', 'b', ... in
\* reading order, so that no two cells of an input are equal.
Cell(x, y) == CharA + y * (MaxCols + 1) + x

\* The inputs' shapes: the length of each row, for up to MaxRows rows.
Shapes == UNION {[1..h -> 0..MaxCols] : h \in 0..MaxRows}

\* Vec<Vec<char>> of a shape.
Nested(sh) == [y \in 1..Len(sh) |-> [x \in 1..sh[y] |-> Cell(x - 1, y - 1)]]

\* The rows joined by a terminator, with or without one after the last row.
RECURSIVE Join(_, _, _, _)
Join(v, i, term, trail) ==
    IF i > Len(v) THEN <<>>
    ELSE v[i] \o (IF i < Len(v) \/ trail THEN term ELSE <<>>)
         \o Join(v, i + 1, term, trail)

NestedInputs == {Nested(sh) : sh \in Shapes}
Terminators == {<<LF>>, <<CR, LF>>}
TextInputs ==
    {Join(Nested(sh), 1, t, trail) : sh \in Shapes, t \in Terminators, trail \in BOOLEAN}
\* from_separated's separator: the line feed, or the carriage return (which
\* leaves the line feeds of a "\r\n" text in the rows).
Separators == {LF, CR}

\* i32 coordinates around the grid, and the usize ones among them.
XsI32 == -1..MaxCols
YsI32 == -1..MaxRows
XsUsize == 0..MaxCols
YsUsize == 0..MaxRows

\* -------------------------------------------------------------------- state

VARIABLES
    impl,        \* which file's Grid: "grid" (grid.rs) or "lib" (lib.rs)
    live,        \* a grid has been constructed
    ty,          \* the element type T of the grid: "char" or "u8"
    buf, width, height,     \* the fields of Grid<T>
    writes,      \* indexed writes applied so far
    pretty,      \* a PrettyGrid borrows the grid
    with_red, with_green,   \* the fields of PrettyGrid: Option of a classifier
    op, arg, ret \* the last call, its argument and what it returned

vars == <<impl, live, ty, buf, width, height, writes, pretty, with_red, with_green,
          op, arg, ret>>

Init ==
    /\ impl \in {"grid", "lib"}
    /\ live = FALSE
    /\ ty = "char"
    /\ buf = <<>> /\ width = 0 /\ height = 0
    /\ writes = 0
    /\ pretty = FALSE /\ with_red = None /\ with_green = None
    /\ op = "start" /\ arg = <<>> /\ ret = <<>>

\* The calls that read the grid and change nothing.
Reads == {"index", "poly_index", "positions", "neighbor_positions4",
          "neighbor_positions8", "fmt", "pretty_fmt"}

\* The grid is at rest: the last call was not a read.  A read leaves every
\* field as it was, so a call made after a read reaches the state the same
\* call reaches without the read before it; the calls are therefore taken
\* from the states at rest only, which loses no reachable state.
AtRest == op \notin Reads

\* What a constructor leaves: the grid it returns, or none when it panics.
Construct(name, a, rr, t) ==
    \E r \in {rr} :
        /\ op' = name /\ arg' = a /\ ret' = r
        /\ live' = r.ok
        /\ IF r.ok
           THEN buf' = r.buf /\ width' = r.width /\ height' = r.height /\ ty' = t
           ELSE UNCHANGED <<buf, width, height, ty>>
        /\ UNCHANGED <<impl, writes, pretty, with_red, with_green>>

\* A constructor is the first call, and its panic is fatal: nothing runs
\* after it.
FromNested ==
    /\ op = "start"
    /\ \E v \in NestedInputs : Construct("from_nested", v, from_nested(v), "char")

FromNestedSlice ==
    /\ op = "start"
    /\ \E v \in NestedInputs :
          Construct("from_nested_slice", v, from_nested_slice(v), "char")

FromStrChars ==
    /\ op = "start"
    /\ \E s \in TextInputs : Construct("from_str_chars", s, from_str_chars(s), "char")

FromSeparated ==
    /\ op = "start"
    /\ \E s \in TextInputs, sep \in Separators :
          Construct("from_separated", <<s, sep>>,
                    IF impl = "grid" THEN from_separated(s, sep)
                    ELSE lib_from_separated(s, sep),
                    "char")

FromStrBytes ==
    /\ op = "start"
    /\ \E s \in TextInputs :
          Construct("from_str_bytes", s,
                    IF impl = "grid" THEN from_str_bytes(s) ELSE lib_from_str_bytes(s),
                    "u8")

\* What a call through &self leaves: its result, and the grid as it was.
Query(name, a, r) ==
    /\ op' = name /\ arg' = a /\ ret' = r
    /\ UNCHANGED <<impl, live, ty, buf, width, height, writes, pretty, with_red, with_green>>

\* grid[(x, y)]
Index ==
    /\ live /\ AtRest
    /\ \E x \in XsUsize, y \in YsUsize :
          Query("index", <<x, y>>, index(buf, width, height, x, y))

\* grid[PolyVec2::new(ix, iy)]
PolyIndex ==
    /\ live /\ AtRest
    /\ \E ix \in XsI32, iy \in YsI32 :
          Query("poly_index", <<ix, iy>>, poly_index(buf, width, height, ix, iy))

\* What an assignment through the place rr leaves; ret keeps the grid as it
\* was before.
Assign(name, a, rr, v) ==
    \E r \in {rr} :
        /\ op' = name /\ arg' = a
        /\ ret' = [ok |-> r.ok, msg |-> r.msg, off |-> r.off,
                   before |-> [buf |-> buf, width |-> width, height |-> height]]
        /\ buf' = IF r.ok THEN [buf EXCEPT ![r.off + 1] = v] ELSE buf
        /\ writes' = writes + 1
        /\ UNCHANGED <<impl, live, ty, width, height, pretty, with_red, with_green>>

\* grid[(x, y)] = v, for v among vals; no PrettyGrid borrows the grid.
IndexMut(vals) ==
    /\ live /\ AtRest /\ ~pretty
    /\ writes < MaxWrites
    /\ \E x \in XsUsize, y \in YsUsize, v \in vals :
          Assign("index_mut", <<x, y, v>>, index_mut(buf, width, height, x, y), v)

\* grid[PolyVec2::new(ix, iy)] = v, for v among vals
PolyIndexMut(vals) ==
    /\ live /\ AtRest /\ ~pretty
    /\ writes < MaxWrites
    /\ \E ix \in XsI32, iy \in YsI32, v \in vals :
          Assign("poly_index_mut", <<ix, iy, v>>,
                 poly_index_mut(buf, width, height, ix, iy), v)

\* grid.map(f), of grid.rs only: the grid is consumed and a new one returned.
Map ==
    /\ live /\ AtRest /\ ~pretty /\ impl = "grid"
    /\ \E f \in MapFns :
          /\ f = "as_u8" => ty = "char"
          /\ \E r \in {map(buf, width, height, f)} :
                /\ buf' = r.buf /\ width' = r.width /\ height' = r.height
                /\ ty' = MapType(f, ty)
                /\ op' = "map" /\ arg' = f
                /\ ret' = [before |-> [buf |-> buf, width |-> width, height |-> height]]
    /\ UNCHANGED <<impl, live, writes, pretty, with_red, with_green>>

\* grid.positions()
Positions ==
    /\ live /\ AtRest
    /\ Query("positions", <<>>, positions(width, height))

\* grid.neighbor_positions4(pos)
NeighborPositions4 ==
    /\ live /\ AtRest
    /\ \E x \in XsI32, y \in YsI32 :
          Query("neighbor_positions4", <<x, y>>,
                neighbor_positions4(width, height, <<x, y>>))

\* grid.neighbor_positions8(pos)
NeighborPositions8 ==
    /\ live /\ AtRest
    /\ \E x \in XsI32, y \in YsI32 :
          Query("neighbor_positions8", <<x, y>>,
                neighbor_positions8(width, height, <<x, y>>))

\* format!("{grid}")
Fmt ==
    /\ live /\ AtRest
    /\ Query("fmt", <<>>, fmt(ty, buf, width, height))

\* grid.pretty(), of grid.rs only
Pretty ==
    /\ live /\ AtRest /\ ~pretty /\ impl = "grid"
    /\ pretty' = TRUE /\ with_red' = None /\ with_green' = None
    /\ op' = "pretty" /\ arg' = <<>> /\ ret' = <<>>
    /\ UNCHANGED <<impl, live, ty, buf, width, height, writes>>

\* pretty.with_red(f)
WithRed ==
    /\ pretty /\ AtRest
    /\ \E f \in Classifiers :
          /\ with_red' = Some(f)
          /\ op' = "with_red" /\ arg' = f /\ ret' = <<>>
    /\ UNCHANGED <<impl, live, ty, buf, width, height, writes, pretty, with_green>>

\* pretty.with_green(f)
WithGreen ==
    /\ pretty /\ AtRest
    /\ \E f \in Classifiers :
          /\ with_green' = Some(f)
          /\ op' = "with_green" /\ arg' = f /\ ret' = <<>>
    /\ UNCHANGED <<impl, live, ty, buf, width, height, writes, pretty, with_red>>

\* format!("{pretty}")
PrettyFmt ==
    /\ pretty /\ AtRest
    /\ Query("pretty_fmt", <<>>,
             pretty_fmt(ty, buf, width, height, with_red, with_green))

\* ----------------------------------------------------------- specifications

\* Construction, indexed reads and writes.
Next ==
    \/ FromNested
    \/ FromNestedSlice
    \/ FromStrChars
    \/ FromSeparated
    \/ FromStrBytes
    \/ Index
    \/ PolyIndex
    \/ IndexMut({CharZ})
    \/ PolyIndexMut({CharZ})

Spec == Init /\ [][Next]_vars

\* Construction and the coordinate iterators.
NextIter ==
    \/ FromNested
    \/ FromNestedSlice
    \/ FromStrChars
    \/ FromSeparated
    \/ FromStrBytes
    \/ Positions
    \/ NeighborPositions4
    \/ NeighborPositions8

SpecIter == Init /\ [][NextIter]_vars

\* Construction, writes of a space or a carriage return, plain rendering.
NextFmt ==
    \/ FromNested
    \/ FromNestedSlice
    \/ FromStrChars
    \/ FromSeparated
    \/ FromStrBytes
    \/ IndexMut({SPACE, CR})
    \/ Fmt

SpecFmt == Init /\ [][NextFmt]_vars

\* Construction, map and annotated rendering.
NextPretty ==
    \/ FromNested
    \/ FromNestedSlice
    \/ FromStrChars
    \/ FromSeparated
    \/ FromStrBytes
    \/ Map
    \/ Pretty
    \/ WithRed
    \/ WithGreen
    \/ PrettyFmt

SpecPretty == Init /\ [][NextPretty]_vars

\* ------------------------------------------------------------------- claims

\* The runs of s between occurrences of sep: one more than there are separators.
RECURSIVE RunsFrom(_, _, _, _)
RunsFrom(s, sep, i, cur) ==
    IF i > Len(s) THEN <<cur>>
    ELSE IF s[i] = sep THEN <<cur>> \o RunsFrom(s, sep, i + 1, <<>>)
    ELSE RunsFrom(s, sep, i + 1, Append(cur, s[i]))

Runs(s, sep) == RunsFrom(s, sep, 1, <<>>)

\* Every row is as long as the first.
Rectangular(v) == \A i \in 1..Len(v) : Len(v[i]) = Len(v[1])

\* The rows a constructor's input holds, by the constructor called.
InputRows ==
    CASE op \in {"from_nested", "from_nested_slice"} -> arg
      [] op = "from_str_chars" -> Lines(arg)
      [] op = "from_separated" -> Runs(arg[1], arg[2])
      [] op = "from_str_bytes" -> Runs(as_bytes(arg), LF)

ConstructorCalls ==
    {"from_nested", "from_nested_slice", "from_str_chars", "from_separated",
     "from_str_bytes"}

\* The grid holds rows[y][x] at (x, y), for every x < width and y < height.
HoldsRows(v) ==
    \A y \in 0..(height - 1) : \A x \in 0..(width - 1) :
        /\ index(buf, width, height, x, y).ok
        /\ y + 1 <= Len(v) /\ x + 1 <= Len(v[y + 1])
        /\ index(buf, width, height, x, y).val = v[y + 1][x + 1]

\* C1: in every reachable grid state the buffer length equals width * height,
\* after every constructor and after any indexed writes.
C1_BufferLength == live => Len(buf) = width * height

\* C2: a constructor that returns a grid was given rows that all have the
\* length of the first one; no grid is built from non-rectangular input.
C2_MismatchFails ==
    (op \in ConstructorCalls /\ ret.ok) => Rectangular(InputRows)

\* C3: from_nested and from_nested_slice, given a non-empty list of rows of
\* one length, succeed with width = Len(v[0]), height = Len(v) and
\* grid[(x, y)] = v[y][x] everywhere.
C3_FromNested ==
    (op \in {"from_nested", "from_nested_slice"} /\ Len(arg) > 0 /\ Rectangular(arg))
    => /\ ret.ok
       /\ width = Len(arg[1])
       /\ height = Len(arg)
       /\ HoldsRows(arg)

\* from_nested has built a grid of two columns and three rows.
C3_Witness ==
    /\ op = "from_nested" /\ ret.ok
    /\ Len(arg) = 3 /\ Rectangular(arg) /\ Len(arg[1]) = 2

\* C4: from_separated, given runs of one length w >= 1, succeeds with
\* height = number of runs, width = w and the runs as rows; from_str_bytes
\* agrees with from_str_chars on every ASCII text that one accepts.
C4_FromSeparated ==
    /\ (op = "from_separated" /\ Rectangular(InputRows) /\ Len(InputRows[1]) >= 1)
       => /\ ret.ok
          /\ height = Len(InputRows)
          /\ width = Len(InputRows[1])
          /\ HoldsRows(InputRows)
    /\ (op = "from_str_bytes" /\ from_str_chars(arg).ok
           /\ \A i \in 1..Len(arg) : arg[i] < 128)
       => /\ ret.ok
          /\ width = from_str_chars(arg).width
          /\ height = from_str_chars(arg).height
          /\ buf = from_str_chars(arg).buf

\* C5: grid[(x, y)], read or written, succeeds exactly when x < width and
\* y < height and then accesses offset y * width + x; otherwise it fails
\* naming the x axis when x >= width and the y axis when only y >= height; a
\* failed write changes nothing; a PolyVec2 index fails on a negative
\* component and is otherwise the same access.
C5_Indexing ==
    /\ op = "index"
       => /\ ret.ok <=> (arg[1] < width /\ arg[2] < height)
          /\ ret.ok => ret.off = arg[2] * width + arg[1] /\ ret.val = buf[ret.off + 1]
          /\ arg[1] >= width => ret.msg = <<"x index out of range">>
          /\ (arg[1] < width /\ arg[2] >= height) => ret.msg = <<"y index out of range">>
    /\ op = "index_mut"
       => /\ ret.ok <=> (arg[1] < width /\ arg[2] < height)
          /\ ret.ok => /\ ret.off = arg[2] * width + arg[1]
                       /\ buf = [ret.before.buf EXCEPT ![ret.off + 1] = arg[3]]
          /\ arg[1] >= width => ret.msg = <<"x index out of range">>
          /\ (arg[1] < width /\ arg[2] >= height) => ret.msg = <<"y index out of range">>
          /\ ~ret.ok => buf = ret.before.buf
          /\ width = ret.before.width /\ height = ret.before.height
    /\ op = "poly_index"
       => IF arg[1] < 0 \/ arg[2] < 0 THEN ~ret.ok
          ELSE ret = index(buf, width, height, arg[1], arg[2])
    /\ op = "poly_index_mut"
       => IF arg[1] < 0 \/ arg[2] < 0 THEN ~ret.ok /\ buf = ret.before.buf
          ELSE /\ ret.ok <=> (arg[1] < width /\ arg[2] < height)
               /\ ret.ok => buf = [ret.before.buf
                                   EXCEPT ![arg[2] * width + arg[1] + 1] = arg[3]]
               /\ ~ret.ok => buf = ret.before.buf

\* (x, y) lies in [0, width) x [0, height).
InBounds(p) == 0 <= p[1] /\ p[1] < width /\ 0 <= p[2] /\ p[2] < height

\* The offsets in the order the claim gives them: up, left, right, down,
\* then the four diagonals.
Offsets4 == << <<0, -1>>, <<-1, 0>>, <<1, 0>>, <<0, 1>> >>
Offsets8 == Offsets4 \o << <<-1, -1>>, <<1, -1>>, <<-1, 1>>, <<1, 1>> >>

\* r lists, in the order of offs and once each, exactly the pos + offset that
\* are in bounds.
YieldsNeighbors(r, offs, pos) ==
    LET at(i) == <<pos[1] + offs[i][1], pos[2] + offs[i][2]>>
        kept == {i \in 1..Len(offs) : InBounds(at(i))}
    IN  /\ Len(r) = Cardinality(kept)
        /\ \A k \in 1..Len(r) : InBounds(r[k])
        /\ \A i \in kept :
              r[Cardinality({j \in kept : j <= i})] = at(i)

Corner(pos) == pos[1] \in {0, width - 1} /\ pos[2] \in {0, height - 1}
Interior(pos) ==
    0 < pos[1] /\ pos[1] < width - 1 /\ 0 < pos[2] /\ pos[2] < height - 1

\* C6: neighbor_positions4 and neighbor_positions8 yield, in table order,
\* exactly the in-bounds pos + offset; a corner of a grid with width,
\* height >= 2 yields 2 or 3 coordinates, an interior cell 4 or 8.
C6_Neighbors ==
    /\ op = "neighbor_positions4"
       => /\ YieldsNeighbors(ret, Offsets4, arg)
          /\ (width >= 2 /\ height >= 2 /\ Corner(arg)) => Len(ret) = 2
          /\ Interior(arg) => Len(ret) = 4
    /\ op = "neighbor_positions8"
       => /\ YieldsNeighbors(ret, Offsets8, arg)
          /\ (width >= 2 /\ height >= 2 /\ Corner(arg)) => Len(ret) = 3
          /\ Interior(arg) => Len(ret) = 8

\* The 8-connected neighbours of an interior cell have been yielded: all eight.
C6_Witness ==
    /\ op = "neighbor_positions8"
    /\ Interior(arg) /\ Len(ret) = 8

\* C7: positions() yields width * height coordinates, none repeated, covering
\* the rectangle in row-major order, each a valid index into the grid.
C7_Positions ==
    op = "positions"
    => /\ Len(ret) = width * height
       /\ \A j, k \in 1..Len(ret) : j # k => ret[j] # ret[k]
       /\ \A x \in 0..(width - 1), y \in 0..(height - 1) :
             \E k \in 1..Len(ret) : ret[k] = <<x, y>>
       /\ \A k \in 1..Len(ret) : ret[k] = <<(k - 1) % width, (k - 1) \div width>>
       /\ \A k \in 1..Len(ret) : index(buf, width, height, ret[k][1], ret[k][2]).ok

\* The rendered cells: the first width * height elements of the buffer.
Rendered == {buf[k] : k \in 1..(width * height)}

\* The last cell of each row.
LastColumn == {buf[y * width] : y \in (IF width = 0 THEN {} ELSE 1..height)}

\* C8, as claimed: the plain rendering of a Grid<char> without spaces and
\* line breaks in its cells parses back, with from_str_chars, to an equal
\* grid.  (Read in the claim's favour: the rendering has completed and no
\* cell is a carriage return.)
C8_RoundTrip ==
    (op = "fmt" /\ ty = "char" /\ ret.ok /\ Rendered \cap {SPACE, LF, CR} = {})
    => LET g == from_str_chars(ret.out)
       IN  /\ g.ok
           /\ g.width = width /\ g.height = height
           /\ \A y \in 0..(height - 1), x \in 0..(width - 1) :
                 g.buf[y * g.width + x + 1] = buf[y * width + x + 1]

\* C8, amended: the rendering puts one space between the cells of a row, and
\* from_str_chars reads each space as a cell: the parsed grid has the same
\* height and width 2 * width - 1 (0 for width 0), the cell (x, y) at
\* (2 * x, y) and a space at every odd column; it equals the grid only when
\* width <= 1.
C8_RoundTripAmended ==
    (op = "fmt" /\ ty = "char" /\ ret.ok /\ Rendered \cap {SPACE, LF} = {}
        /\ CR \notin LastColumn)
    => LET g == from_str_chars(ret.out)
       IN  /\ g.ok
           /\ g.height = height
           /\ g.width = (IF width = 0 THEN 0 ELSE 2 * width - 1)
           /\ \A y \in 0..(height - 1), x \in 0..(width - 1) :
                 g.buf[y * g.width + 2 * x + 1] = buf[y * width + x + 1]
           /\ \A y \in 0..(height - 1), x \in 0..(g.width - 1) :
                 x % 2 = 1 => g.buf[y * g.width + x + 1] = SPACE
           /\ (g.width = width) <=> (width <= 1)

\* A Grid<char> of at least two columns and two rows, without spaces and line
\* breaks, has been rendered.
C8_Witness ==
    /\ op = "fmt" /\ ty = "char" /\ ret.ok
    /\ width >= 2 /\ height >= 2
    /\ Rendered \cap {SPACE, LF, CR} = {}

\* The style the claim gives cell (x, y).
ClaimedStyle(x, y) ==
    IF with_red # None /\ Classify(with_red[1], x, y) THEN "bold red"
    ELSE IF with_green # None /\ Classify(with_green[1], x, y) THEN "bold green"
    ELSE "rgb(192,192,192)"

\* C9: annotated rendering visits the cells in row-major order and gives
\* each one style: red if the red classifier is attached and true, else
\* green if the green one is attached and true, else gray; no classifier, no
\* colour; a classifier true only at (0, 0) colours no other cell.
C9_Styles ==
    op = "pretty_fmt"
    => /\ ret.ok
       /\ Len(ret.out) = height
       /\ \A y \in 1..Len(ret.out) :
             /\ Len(ret.out[y]) = width
             /\ \A x \in 1..Len(ret.out[y]) :
                   LET c == ret.out[y][x]
                   IN  /\ c.x = x - 1 /\ c.y = y - 1
                       /\ c.style = ClaimedStyle(x - 1, y - 1)
                       /\ (with_red = None /\ with_green = None)
                          => c.style = "rgb(192,192,192)"
                       /\ (with_red = Some("origin") /\ with_green = None)
                          => (c.style = "bold red" <=> (x = 1 /\ y = 1))
                       /\ (with_red # None /\ with_green # None
                             /\ Classify(with_red[1], x - 1, y - 1)
                             /\ Classify(with_green[1], x - 1, y - 1))
                          => c.style = "bold red"

\* A grid of several cells has been rendered with both classifiers attached,
\* the green one true everywhere and the red one on the diagonal.
C9_Witness ==
    /\ op = "pretty_fmt"
    /\ with_red = Some("diagonal") /\ with_green = Some("all")
    /\ width >= 2 /\ height >= 2

\* C10: width and height are positive in every reachable grid state, and no
\* later operation changes them.
C10_PositiveDims ==
    /\ live => (width >= 1 /\ height >= 1)
    /\ op \in {"index_mut", "poly_index_mut"}
       => (width = ret.before.width /\ height = ret.before.height)

====
